---- MODULE Spec2Model ----
(***************************************************************************)
(* Model of the scheduling TaskManager (package scheduling) over a         *)
(* key/value StorageProvider.  Each manager call is split at its KV        *)
(* operations, so that calls of different callers interleave exactly where *)
(* the code touches the store.                                             *)
(***************************************************************************)
EXTENDS Integers, Sequences, FiniteSets, TLC

(* ------------------------------ bounds --------------------------------- *)
MaxCalls == 3
MaxFailures == 1
MaxOverlaps == 1

Procs == {1, 2}
TaskIDs == {1, 2}
RunIDs == {1, 2}

(* ------------------------------- time ---------------------------------- *)
(* A time.Time is an instant (hours since 2024-03-01T00:00Z) and the       *)
(* offset of its location; the calendar fields are read in that location.  *)
TimeOf(t, off) == [t |-> t, off |-> off]

ZeroTime == [t |-> -17734680, off |-> 0]

UTC(x) == [t |-> x.t, off |-> 0]

DayIndex(x) == (x.t + x.off) \div 24

Year(x) == IF x = ZeroTime THEN 1 ELSE 2024

Month(x) ==
  IF x = ZeroTime THEN "January"
  ELSE IF DayIndex(x) < 0 THEN "February"
  ELSE IF DayIndex(x) < 31 THEN "March"
  ELSE "April"

Day(x) ==
  IF x = ZeroTime THEN 1
  ELSE IF DayIndex(x) < 0 THEN 30 + DayIndex(x)
  ELSE IF DayIndex(x) < 31 THEN DayIndex(x) + 1
  ELSE DayIndex(x) - 30

(* -------------------------- formatting of keys -------------------------- *)
(* A key is the sequence of its pieces: the literal parts of the format    *)
(* string and the decimal digits of each %d, so that "is a prefix of" on   *)
(* keys is the string prefix relation of the store.                        *)
DigitChars == <<"0", "1", "2", "3", "4", "5", "6", "7", "8", "9">>

RECURSIVE Itoa(_)
Itoa(n) == IF n < 10 THEN <<DigitChars[n + 1]>>
           ELSE Itoa(n \div 10) \o <<DigitChars[(n % 10) + 1]>>

IsDigit(c) == \E i \in 1..10 : DigitChars[i] = c

DigitVal(c) == (CHOOSE i \in 1..10 : DigitChars[i] = c) - 1

RECURSIVE AtoiVal(_)
AtoiVal(s) == IF Len(s) = 0 THEN 0
              ELSE 10 * AtoiVal(SubSeq(s, 1, Len(s) - 1)) + DigitVal(s[Len(s)])

Atoi(s) ==
  IF Len(s) > 0 /\ \A i \in 1..Len(s) : IsDigit(s[i])
  THEN [err |-> "none", val |-> AtoiVal(s)]
  ELSE [err |-> "atoi", val |-> 0]

TASKMETADATA == <<"/tasks/metadata/", "task_id=">>
TASKRUNS == <<"/tasks/runs/", "task_id=">>
TASKRUNMETADATA == <<"/", "tasks/runs/metadata">>

(* The run-detail keys and the scans of them are formatted from the        *)
(* literal "tasks/runs/metadata", which has no leading slash.              *)
RunDetailPrefix == <<"tasks/runs/metadata">>

GetTaskMetadataKey(id) == TASKMETADATA \o Itoa(id)

(* string(n) of an integer n is the one-character string of the code point *)
(* n: a control character for 1..9, a digit character for 48..57.          *)
ControlChars == <<"\\x01", "\\x02", "\\x03", "\\x04", "\\x05", "\\x06", "\\x07", "\\x08", "\\x09">>

RuneString(n) ==
  IF n \in 1..9 THEN <<ControlChars[n]>>
  ELSE IF n \in 48..57 THEN <<DigitChars[n - 47]>>
  ELSE <<"\\u">> \o Itoa(n)

GetTaskRunsKey(id) == TASKRUNS \o Itoa(id)

(* The run-detail key is formatted at two places: where CreateTaskRun      *)
(* writes it and where GetRunByID reads it.                                *)
ItoaPadded(n) == IF n < 10 THEN <<"0">> \o Itoa(n) ELSE Itoa(n)

CreateTaskRunKeyPadded(startTime, taskID, runID) ==
  RunDetailPrefix \o <<"/">> \o Itoa(Year(startTime)) \o <<"/", Month(startTime), "/">>
    \o ItoaPadded(Day(startTime)) \o <<"/", "task_id=">> \o Itoa(taskID)
    \o <<"/", "run_id=">> \o Itoa(runID)

GetRunByIDKeyPadded(date, taskID, runID) ==
  RunDetailPrefix \o <<"/">> \o Itoa(Year(date)) \o <<"/", Month(date), "/">>
    \o ItoaPadded(Day(date)) \o <<"/", "task_id=">> \o Itoa(taskID)
    \o <<"/", "run_id=">> \o Itoa(runID)

CreateTaskRunKey(startTime, taskID, runID) ==
  RunDetailPrefix \o <<"/">> \o Itoa(Year(startTime)) \o <<"/", Month(startTime), "/">>
    \o Itoa(Day(startTime)) \o <<"/", "task_id=">> \o Itoa(taskID)
    \o <<"/", "run_id=">> \o Itoa(runID)

GetRunByIDKey(date, taskID, runID) ==
  RunDetailPrefix \o <<"/">> \o Itoa(Year(date)) \o <<"/", Month(date), "/">>
    \o Itoa(Day(date)) \o <<"/", "task_id=">> \o Itoa(taskID)
    \o <<"/", "run_id=">> \o Itoa(runID)

IsPrefix(p, k) == Len(p) <= Len(k) /\ SubSeq(k, 1, Len(p)) = p

(* ---------------------------- serialization ----------------------------- *)
(* Timestamps are written as the wall-clock reading with its offset, and   *)
(* read back as the instant, in UTC.                                       *)
FormatTime(x) == [wall |-> x.t + x.off, zone |-> x.off]

ParseTime(s) == [t |-> s.wall - s.zone, off |-> 0]

TargetTypes == {"NameVariant", "Provider"}

TargetType(target) == target.variant

NameVariantTarget == [variant |-> "NameVariant", name |-> "n"]

ProviderTarget == [variant |-> "Provider", name |-> "p"]

MarshalTaskMetadata(m) ==
  [id |-> m.ID, name |-> m.Name, type |-> m.TaskType,
   target |-> [name |-> m.Target.name, targetType |-> m.TargetType],
   targetType |-> m.TargetType, dateCreated |-> FormatTime(m.DateCreated)]

UnmarshalTaskMetadata(s) ==
  IF s.targetType \notin TargetTypes
  THEN [err |-> "No such target type", val |-> <<>>]
  ELSE [err |-> "none",
        val |-> [ID |-> s.id, Name |-> s.name, TaskType |-> s.type,
                 Target |-> [variant |-> s.targetType, name |-> s.target.name],
                 TargetType |-> s.targetType,
                 DateCreated |-> ParseTime(s.dateCreated)]]

MarshalRunSimple(r) == [runID |-> r.RunID, dateCreated |-> FormatTime(r.DateCreated)]

UnmarshalRunSimple(s) == [RunID |-> s.runID, DateCreated |-> ParseTime(s.dateCreated)]

MarshalTaskRuns(r) ==
  [taskID |-> r.TaskID, runs |-> [i \in 1..Len(r.Runs) |-> MarshalRunSimple(r.Runs[i])]]

UnmarshalTaskRuns(s) ==
  [err |-> "none",
   val |-> [TaskID |-> s.taskID,
            Runs |-> [i \in 1..Len(s.runs) |-> UnmarshalRunSimple(s.runs[i])]]]

TriggerTypes == {"OneOffTrigger", "DummyTrigger"}

Statuses == {"PENDING", "RUNNING", "FAILED", "SUCCEEDED"}

OneOffTrigger == [TriggerName |-> "t1", TriggerType |-> "OneOffTrigger", DummyField |-> FALSE]

DummyTrigger == [TriggerName |-> "t2", TriggerType |-> "DummyTrigger", DummyField |-> TRUE]

TriggerType(trigger) == trigger.TriggerType

MarshalTaskRunMetadata(m) ==
  [runId |-> m.ID, taskId |-> m.TaskId, name |-> m.Name,
   trigger |-> [triggerName |-> m.Trigger.TriggerName,
                triggerType |-> m.Trigger.TriggerType,
                dummyField |-> m.Trigger.DummyField],
   status |-> m.Status, startTime |-> FormatTime(m.StartTime),
   endTime |-> FormatTime(m.EndTime), logs |-> m.Logs, error |-> m.Error]

(* A serialized record is the tree its text parses to: an object is a     *)
(* record of its members, present or not; an array in the place of the    *)
(* trigger object is a record with the member "array"; a text that is not *)
(* well-formed is a record with the member "syntaxError".                 *)
DecodeTaskRunFields(s) ==
  [ID |-> s.runId, TaskId |-> s.taskId,
   Name |-> IF "name" \in DOMAIN s THEN s.name ELSE "",
   Trigger |-> [TriggerName |-> s.trigger.triggerName,
                TriggerType |-> s.trigger.triggerType,
                DummyField |-> s.trigger.dummyField],
   TriggerType |-> s.trigger.triggerType,
   Status |-> s.status, StartTime |-> ParseTime(s.startTime),
   EndTime |-> ParseTime(s.endTime), Logs |-> s.logs,
   Error |-> s.error]

UnmarshalTaskRunMetadataNoName(s) ==
  IF "syntaxError" \in DOMAIN s THEN [err |-> "invalid character", val |-> <<>>]
  ELSE IF "trigger" \notin DOMAIN s THEN [err |-> "Missing field 'trigger'", val |-> <<>>]
  ELSE IF "array" \in DOMAIN s.trigger THEN [err |-> "Wrong format of Trigger", val |-> <<>>]
  ELSE IF s.status \notin Statuses THEN [err |-> "No such status", val |-> <<>>]
  ELSE IF s.trigger.triggerType \notin TriggerTypes
  THEN [err |-> "No such target type", val |-> <<>>]
  ELSE [err |-> "none", val |-> DecodeTaskRunFields(s)]

UnmarshalTaskRunMetadataOneOff(s) ==
  IF "syntaxError" \in DOMAIN s THEN [err |-> "invalid character", val |-> <<>>]
  ELSE IF "name" \notin DOMAIN s THEN [err |-> "Missing field 'name'", val |-> <<>>]
  ELSE IF "trigger" \notin DOMAIN s THEN [err |-> "Missing field 'trigger'", val |-> <<>>]
  ELSE IF "array" \in DOMAIN s.trigger THEN [err |-> "Wrong format of Trigger", val |-> <<>>]
  ELSE IF s.status \notin Statuses THEN [err |-> "No such status", val |-> <<>>]
  ELSE IF s.trigger.triggerType \notin TriggerTypes
  THEN [err |-> "No such target type", val |-> <<>>]
  ELSE [err |-> "none",
        val |-> [DecodeTaskRunFields(s) EXCEPT !.Trigger.DummyField = FALSE]]

UnmarshalTaskRunMetadata(s) ==
  IF "syntaxError" \in DOMAIN s THEN [err |-> "invalid character", val |-> <<>>]
  ELSE IF "name" \notin DOMAIN s THEN [err |-> "Missing field 'name'", val |-> <<>>]
  ELSE IF "trigger" \notin DOMAIN s THEN [err |-> "Missing field 'trigger'", val |-> <<>>]
  ELSE IF "array" \in DOMAIN s.trigger THEN [err |-> "Wrong format of Trigger", val |-> <<>>]
  ELSE IF s.status \notin Statuses THEN [err |-> "No such status", val |-> <<>>]
  ELSE IF s.trigger.triggerType \notin TriggerTypes
  THEN [err |-> "No such target type", val |-> <<>>]
  ELSE [err |-> "none", val |-> DecodeTaskRunFields(s)]

(* ------------------------------- state ---------------------------------- *)
VARIABLES
  store,        \* the KV store: a function from keys to serialized values
  now,          \* the wall clock read by time.Now()
  pc,           \* position of each caller inside its manager call
  loc,          \* local variables of the call in progress
  ret,          \* the value a call has just returned, until its caller takes it
  overlaps,     \* number of calls begun while another call was in progress
  failures,     \* number of Set operations that returned an error
  calls,        \* number of CreateTask and CreateTaskRun calls that reached a write
  createdTasks, \* TaskMetadata returned by successful CreateTask, in order
  createdRuns,  \* TaskRunMetadata returned by successful CreateTaskRun, in order
  overlapCT,    \* some CreateTask began while another was in progress
  overlapCR,    \* tasks on which a CreateTaskRun began while another was in progress
  orphans       \* <<task, index entry>> of the runs whose run-detail Set failed

vars == <<store, now, pc, loc, ret, overlaps, failures, calls,
          createdTasks, createdRuns, overlapCT, overlapCR, orphans>>

ghost == <<calls, createdTasks, createdRuns, overlapCT, overlapCR, orphans>>

NoLoc == [op |-> "none"]

NoRet == [op |-> "none", err |-> "none"]

(* The StorageProvider: unconditional put, point lookup, prefix listing.   *)
StorageSet(s, key, value) == (key :> value) @@ s

StorageHas(s, key) == key \in DOMAIN s

StorageListKeys(s, prefix) == {k \in DOMAIN s : IsPrefix(prefix, k)}

(* The arguments each caller passes to CreateTask and CreateTaskRun.       *)
TaskInputs(p) == IF p = 1 THEN {[name |-> "etl", target |-> NameVariantTarget]}
                 ELSE {[name |-> "job", target |-> ProviderTarget]}

RunInputs(p) == IF p = 1 THEN {[name |-> "first", trigger |-> OneOffTrigger]}
                ELSE {[name |-> "second", trigger |-> DummyTrigger]}

Init ==
  /\ store = <<>>
  /\ now = 0
  /\ pc = [p \in Procs |-> "idle"]
  /\ loc = [p \in Procs |-> NoLoc]
  /\ ret = NoRet
  /\ failures = 0
  /\ overlaps = 0
  /\ calls = 0
  /\ createdTasks = <<>>
  /\ createdRuns = <<>>
  /\ overlapCT = FALSE
  /\ overlapCR = {}
  /\ orphans = {}

(* A KV operation either succeeds or returns an error.                     *)
ReadOutcomes == {TRUE, FALSE}

SetOutcomes == IF failures < MaxFailures THEN {TRUE, FALSE} ELSE {TRUE}

(* A caller begins a call; the other caller may be inside one.             *)
Busy(p) == \E q \in Procs \ {p} : pc[q] # "idle"

Begin(p) ==
  /\ ret = NoRet
  /\ pc[p] = "idle"
  /\ Busy(p) => overlaps < MaxOverlaps
  /\ overlaps' = IF Busy(p) THEN overlaps + 1 ELSE overlaps

Step(p, at) ==
  /\ ret = NoRet
  /\ pc[p] = at
  /\ overlaps' = overlaps

Return(p, r) ==
  /\ pc' = [pc EXCEPT ![p] = "idle"]
  /\ loc' = [loc EXCEPT ![p] = NoLoc]
  /\ ret' = r

(* The caller takes the value returned to it; the next step of any call    *)
(* comes after that.                                                       *)
TakeResult ==
  /\ ret # NoRet
  /\ ret' = NoRet
  /\ UNCHANGED <<store, now, pc, loc, overlaps, failures, ghost>>

(* time.Now(): the wall clock, in the local zone of the process; it does   *)
(* not run backwards between two readings.                                 *)
ClockValues == {0, 216}

LocalZone == -5

ClockAdvances == {v \in ClockValues : v >= now}

Now(v) == TimeOf(v, LocalZone)

ReadClock(v) == now' = v

(* ------------------------------ CreateTask ------------------------------ *)
SplitTaskID(path) ==
  IF \E i \in 1..Len(path) : path[i] = "task_id="
  THEN LET i == CHOOSE j \in 1..Len(path) :
                  path[j] = "task_id=" /\ \A k \in 1..(j - 1) : path[k] # "task_id="
           rest == SubSeq(path, i + 1, Len(path))
           stop == IF \E j \in 1..Len(rest) : rest[j] = "task_id="
                   THEN (CHOOSE j \in 1..Len(rest) :
                           rest[j] = "task_id=" /\ \A k \in 1..(j - 1) : rest[k] # "task_id=") - 1
                   ELSE Len(rest)
       IN <<SubSeq(path, 1, i - 1), SubSeq(rest, 1, stop)>>
  ELSE <<path>>

MaxOf(S) == CHOOSE x \in S : \A y \in S : y <= x

getLatestIDLowest(taskPaths) ==
  IF \E path \in taskPaths : Len(SplitTaskID(path)) < 2
  THEN [err |-> "invalid format", val |-> -1]
  ELSE IF \E path \in taskPaths : Atoi(SplitTaskID(path)[2]).err # "none"
  THEN [err |-> "atoi", val |-> -1]
  ELSE IF taskPaths = {}
  THEN [err |-> "no valid increments found", val |-> -1]
  ELSE [err |-> "none",
        val |-> CHOOSE x \in {Atoi(SplitTaskID(path)[2]).val : path \in taskPaths} :
                  \A y \in {Atoi(SplitTaskID(path)[2]).val : path \in taskPaths} : x <= y]

getLatestIDZeroBased(taskPaths) ==
  IF \E path \in taskPaths : Len(SplitTaskID(path)) < 2
  THEN [err |-> "invalid format", val |-> -1]
  ELSE IF \E path \in taskPaths : Atoi(SplitTaskID(path)[2]).err # "none"
  THEN [err |-> "atoi", val |-> -1]
  ELSE IF taskPaths = {}
  THEN [err |-> "no valid increments found", val |-> -1]
  ELSE [err |-> "none",
        val |-> MaxOf({Atoi(SplitTaskID(path)[2]).val : path \in taskPaths}) - 1]

getLatestID(taskPaths) ==
  IF \E path \in taskPaths : Len(SplitTaskID(path)) < 2
  THEN [err |-> "invalid format", val |-> -1]
  ELSE IF \E path \in taskPaths : Atoi(SplitTaskID(path)[2]).err # "none"
  THEN [err |-> "atoi", val |-> -1]
  ELSE IF taskPaths = {}
  THEN [err |-> "no valid increments found", val |-> -1]
  ELSE [err |-> "none",
        val |-> MaxOf({Atoi(SplitTaskID(path)[2]).val : path \in taskPaths})]

NewTaskMetadata(latestID, in, d) ==
  [ID |-> latestID + 1, Name |-> in.name,
   TaskType |-> "ResourceCreation", Target |-> in.target,
   TargetType |-> TargetType(in.target),
   DateCreated |-> UTC(Now(d))]

CreateTaskListKeys(p) ==
  /\ Begin(p)
  /\ calls < MaxCalls
  /\ \E in \in TaskInputs(p), ok \in ReadOutcomes, d \in ClockAdvances :
       LET keys == StorageListKeys(store, TASKMETADATA)
           latest == IF keys = {} THEN [err |-> "none", val |-> 0] ELSE getLatestID(keys)
           metadata == NewTaskMetadata(latest.val, in, d)
       IN IF ~ok
          THEN /\ failures' = failures
               /\ d = now
               /\ UNCHANGED <<calls, overlapCT, now>>
               /\ Return(p, [op |-> "CreateTask", err |-> "backend", at |-> "ListKeys"])
          ELSE IF latest.err # "none"
          THEN /\ d = now
               /\ UNCHANGED <<failures, calls, overlapCT, now>>
               /\ Return(p, [op |-> "CreateTask", err |-> latest.err, at |-> "getLatestID"])
          ELSE /\ failures' = failures
               /\ ReadClock(d)
               /\ calls' = calls + 1
               /\ overlapCT' = (overlapCT \/ \E q \in Procs : loc[q].op = "CreateTask")
               /\ pc' = [pc EXCEPT ![p] = "ct_set_metadata"]
               /\ loc' = [loc EXCEPT ![p] = [op |-> "CreateTask", metadata |-> metadata]]
               /\ ret' = NoRet
  /\ UNCHANGED <<store, createdTasks, createdRuns, overlapCR, orphans>>

CreateTaskSetMetadata(p) ==
  /\ Step(p, "ct_set_metadata")
  /\ \E ok \in SetOutcomes :
       IF ~ok
       THEN /\ failures' = failures + 1
            /\ store' = store
            /\ Return(p, [op |-> "CreateTask", err |-> "backend", at |-> "SetMetadata",
                          id |-> loc[p].metadata.ID])
       ELSE /\ failures' = failures
            /\ store' = StorageSet(store, GetTaskMetadataKey(loc[p].metadata.ID),
                                   MarshalTaskMetadata(loc[p].metadata))
            /\ pc' = [pc EXCEPT ![p] = "ct_set_runs"]
            /\ loc' = loc
            /\ ret' = NoRet
  /\ UNCHANGED <<now, ghost>>

CreateTaskSetRuns(p) ==
  /\ Step(p, "ct_set_runs")
  /\ \E ok \in SetOutcomes :
       LET metadata == loc[p].metadata
           runs == [TaskID |-> metadata.ID, Runs |-> <<>>]
       IN IF ~ok
          THEN /\ failures' = failures + 1
               /\ store' = store
               /\ createdTasks' = createdTasks
               /\ Return(p, [op |-> "CreateTask", err |-> "backend", at |-> "SetRuns",
                             id |-> metadata.ID])
          ELSE /\ failures' = failures
               /\ store' = StorageSet(store, GetTaskRunsKey(metadata.ID), MarshalTaskRuns(runs))
               /\ createdTasks' = Append(createdTasks, metadata)
               /\ Return(p, [op |-> "CreateTask", err |-> "none", val |-> metadata])
  /\ UNCHANGED <<now, calls, createdRuns, overlapCT, overlapCR, orphans>>

(* ------------------------------ GetTaskByID ----------------------------- *)
(* Get(key, false) on an absent key: the provider either fails fast with   *)
(* an error or returns an empty result.                                    *)
MissOutcomes(key) == IF key \in DOMAIN store THEN {"hit"} ELSE {"error", "empty"}

TaskNotFound(id) == <<"task not found for id: ">> \o RuneString(id)

GetTaskByID(p) ==
  /\ Begin(p)
  /\ \E id \in TaskIDs, ok \in ReadOutcomes :
     \E miss \in MissOutcomes(GetTaskMetadataKey(id)) :
       LET key == GetTaskMetadataKey(id)
       IN IF ~ok
          THEN /\ failures' = failures
               /\ Return(p, [op |-> "GetTaskByID", id |-> id, err |-> "backend"])
          ELSE /\ failures' = failures
               /\ IF ~StorageHas(store, key)
                  THEN IF miss = "error"
                       THEN Return(p, [op |-> "GetTaskByID", id |-> id,
                                       err |-> "provider miss"])
                       ELSE Return(p, [op |-> "GetTaskByID", id |-> id,
                                       err |-> "task not found",
                                       msg |-> TaskNotFound(id)])
                  ELSE LET u == UnmarshalTaskMetadata(store[key])
                       IN IF u.err # "none"
                          THEN Return(p, [op |-> "GetTaskByID", id |-> id, err |-> u.err])
                          ELSE Return(p, [op |-> "GetTaskByID", id |-> id,
                                          err |-> "none", val |-> u.val])
  /\ UNCHANGED <<store, now, ghost>>

(* ----------------------------- CreateTaskRun ---------------------------- *)
(* An empty result of Get(key, false) is indexed at [0], which panics.     *)
getHighestRunIDSkipFirst(taskRuns) ==
  IF Len(taskRuns.Runs) = 0 THEN 0
  ELSE MaxOf({0} \cup {taskRuns.Runs[i].RunID : i \in 2..Len(taskRuns.Runs)})

getHighestRunID(taskRuns) ==
  IF Len(taskRuns.Runs) = 0 THEN 0
  ELSE MaxOf({taskRuns.Runs[i].RunID : i \in 1..Len(taskRuns.Runs)})

NewTaskRunMetadata(latestID, taskID, in, startTime) ==
  [ID |-> latestID + 1, TaskId |-> taskID,
   Name |-> in.name, Trigger |-> in.trigger,
   TriggerType |-> TriggerType(in.trigger),
   Status |-> "PENDING", StartTime |-> startTime,
   EndTime |-> ZeroTime, Logs |-> <<>>, Error |-> ""]

AppendRun(taskRuns, metadata, startTime) ==
  [taskRuns EXCEPT !.Runs = Append(@, [RunID |-> metadata.ID, DateCreated |-> startTime])]

CreateTaskRunGetRuns(p) ==
  /\ Begin(p)
  /\ calls < MaxCalls
  /\ \E in \in RunInputs(p), taskID \in TaskIDs, ok \in ReadOutcomes, d \in ClockAdvances :
     \E miss \in MissOutcomes(GetTaskRunsKey(taskID)) :
       LET key == GetTaskRunsKey(taskID)
           fail(e) == /\ d = now
                      /\ UNCHANGED <<calls, overlapCR, now>>
                      /\ Return(p, [op |-> "CreateTaskRun", taskID |-> taskID, err |-> e])
       IN IF ~ok
          THEN failures' = failures /\ fail("backend")
          ELSE /\ failures' = failures
               /\ IF ~StorageHas(store, key)
                  THEN fail(IF miss = "error" THEN "provider miss" ELSE "panic")
                  ELSE LET u == UnmarshalTaskRuns(store[key])
                           latestID == getHighestRunID(u.val)
                           startTime == UTC(Now(d))
                           metadata == NewTaskRunMetadata(latestID, taskID, in, startTime)
                           runs == AppendRun(u.val, metadata, startTime)
                       IN /\ miss = "hit"
                          /\ ReadClock(d)
                          /\ calls' = calls + 1
                          /\ overlapCR' = IF \E q \in Procs : /\ loc[q].op = "CreateTaskRun"
                                                              /\ loc[q].taskID = taskID
                                          THEN overlapCR \cup {taskID} ELSE overlapCR
                          /\ pc' = [pc EXCEPT ![p] = "cr_set_runs"]
                          /\ loc' = [loc EXCEPT ![p] =
                                       [op |-> "CreateTaskRun", taskID |-> taskID,
                                        metadata |-> metadata, runs |-> runs,
                                        startTime |-> startTime]]
                          /\ ret' = NoRet
  /\ UNCHANGED <<store, createdTasks, createdRuns, overlapCT, orphans>>

CreateTaskRunSetRuns(p) ==
  /\ Step(p, "cr_set_runs")
  /\ \E ok \in SetOutcomes :
       IF ~ok
       THEN /\ failures' = failures + 1
            /\ store' = store
            /\ Return(p, [op |-> "CreateTaskRun", taskID |-> loc[p].taskID, err |-> "backend"])
       ELSE /\ failures' = failures
            /\ store' = StorageSet(store, GetTaskRunsKey(loc[p].taskID),
                                   MarshalTaskRuns(loc[p].runs))
            /\ pc' = [pc EXCEPT ![p] = "cr_set_metadata"]
            /\ loc' = loc
            /\ ret' = NoRet
  /\ UNCHANGED <<now, ghost>>

CreateTaskRunSetMetadata(p) ==
  /\ Step(p, "cr_set_metadata")
  /\ \E ok \in SetOutcomes :
       LET metadata == loc[p].metadata
           key == CreateTaskRunKey(loc[p].startTime, loc[p].taskID, metadata.ID)
       IN IF ~ok
          THEN /\ failures' = failures + 1
               /\ store' = store
               /\ createdRuns' = createdRuns
               /\ orphans' = orphans \cup {<<loc[p].taskID,
                                              [RunID |-> metadata.ID,
                                               DateCreated |-> loc[p].startTime]>>}
               /\ Return(p, [op |-> "CreateTaskRun", taskID |-> loc[p].taskID,
                             err |-> "backend"])
          ELSE /\ failures' = failures
               /\ store' = StorageSet(store, key, MarshalTaskRunMetadata(metadata))
               /\ createdRuns' = Append(createdRuns, metadata)
               /\ orphans' = orphans
               /\ Return(p, [op |-> "CreateTaskRun", taskID |-> loc[p].taskID,
                             err |-> "none", val |-> metadata])
  /\ UNCHANGED <<now, calls, createdTasks, overlapCT, overlapCR>>

(* ------------------------------ GetRunByID ------------------------------ *)
FindRunFirst(runs, runID) ==
  IF \E i \in 1..Len(runs) : runs[i].RunID = runID
  THEN [found |-> TRUE, runRecord |-> runs[1]]
  ELSE [found |-> FALSE]

FindRunAny(runs, runID) ==
  IF Len(runs) > 0
  THEN [found |-> TRUE, runRecord |-> runs[1]]
  ELSE [found |-> FALSE]

FindRun(runs, runID) ==
  IF \E i \in 1..Len(runs) : runs[i].RunID = runID
  THEN [found |-> TRUE,
        runRecord |-> runs[CHOOSE i \in 1..Len(runs) :
                             /\ runs[i].RunID = runID
                             /\ \A j \in 1..(i - 1) : runs[j].RunID # runID]]
  ELSE [found |-> FALSE]

GetRunByIDGetRuns(p) ==
  /\ Begin(p)
  /\ \E taskID \in TaskIDs, runID \in RunIDs, ok \in ReadOutcomes :
     \E miss \in MissOutcomes(GetTaskRunsKey(taskID)) :
       LET key == GetTaskRunsKey(taskID)
           r(e) == [op |-> "GetRunByID", taskID |-> taskID, runID |-> runID, err |-> e]
       IN IF ~ok
          THEN failures' = failures /\ Return(p, r("backend"))
          ELSE /\ failures' = failures
               /\ IF ~StorageHas(store, key)
                  THEN Return(p, r(IF miss = "error" THEN "provider miss" ELSE "panic"))
                  ELSE LET u == UnmarshalTaskRuns(store[key])
                           f == FindRun(u.val.Runs, runID)
                       IN /\ miss = "hit"
                          /\ IF ~f.found
                             THEN Return(p, r("run not found"))
                             ELSE /\ pc' = [pc EXCEPT ![p] = "gr_get_rec"]
                                  /\ loc' = [loc EXCEPT ![p] =
                                               [op |-> "GetRunByID", taskID |-> taskID,
                                                runID |-> runID, runRecord |-> f.runRecord]]
                                  /\ ret' = NoRet
  /\ UNCHANGED <<store, now, ghost>>

GetRunByIDGetRec(p) ==
  /\ Step(p, "gr_get_rec")
  /\ \E ok \in ReadOutcomes,
        miss \in MissOutcomes(GetRunByIDKey(loc[p].runRecord.DateCreated, loc[p].taskID,
                                            loc[p].runRecord.RunID)) :
       LET runRecord == loc[p].runRecord
           date == runRecord.DateCreated
           key == GetRunByIDKey(date, loc[p].taskID, runRecord.RunID)
           r(e) == [op |-> "GetRunByID", taskID |-> loc[p].taskID,
                    runID |-> loc[p].runID, runRecord |-> runRecord, err |-> e]
       IN IF ~ok
          THEN failures' = failures /\ Return(p, r("backend"))
          ELSE /\ failures' = failures
               /\ IF ~StorageHas(store, key)
                  THEN Return(p, r(IF miss = "error" THEN "provider miss" ELSE "panic"))
                  ELSE LET u == UnmarshalTaskRunMetadata(store[key])
                       IN /\ miss = "hit"
                          /\ IF u.err # "none"
                             THEN Return(p, r("failed to unmarshal run record"))
                             ELSE Return(p, [op |-> "GetRunByID", taskID |-> loc[p].taskID,
                                             runID |-> loc[p].runID,
                                             runRecord |-> runRecord, err |-> "none",
                                             val |-> u.val])
  /\ UNCHANGED <<store, now, ghost>>

Next ==
  \/ TakeResult
  \/ \E p \in Procs : CreateTaskListKeys(p)
  \/ \E p \in Procs : CreateTaskSetMetadata(p)
  \/ \E p \in Procs : CreateTaskSetRuns(p)
  \/ \E p \in Procs : GetTaskByID(p)
  \/ \E p \in Procs : CreateTaskRunGetRuns(p)
  \/ \E p \in Procs : CreateTaskRunSetRuns(p)
  \/ \E p \in Procs : CreateTaskRunSetMetadata(p)
  \/ \E p \in Procs : GetRunByIDGetRuns(p)
  \/ \E p \in Procs : GetRunByIDGetRec(p)

Spec == Init /\ [][Next]_vars

(* -------------------------------- scans --------------------------------- *)
(* Get(prefix, true) returns the values of the keys that have the prefix,  *)
(* in an order the provider chooses.                                       *)
Orders(S) ==
  {o \in [1..Cardinality(S) -> S] : \A i, j \in 1..Cardinality(S) : i # j => o[i] # o[j]}

StorageGetPrefix(s, order) == [i \in 1..Len(order) |-> s[order[i]]]

DecodeTaskRecordsSkipBad(metadata) ==
  [err |-> "none",
   val |-> LET good == SelectSeq(metadata, LAMBDA m : UnmarshalTaskMetadata(m).err = "none")
           IN [i \in 1..Len(good) |-> UnmarshalTaskMetadata(good[i]).val]]

DecodeTaskRecords(metadata) ==
  IF \E i \in 1..Len(metadata) : UnmarshalTaskMetadata(metadata[i]).err # "none"
  THEN [err |-> UnmarshalTaskMetadata(
                  metadata[CHOOSE i \in 1..Len(metadata) :
                             /\ UnmarshalTaskMetadata(metadata[i]).err # "none"
                             /\ \A j \in 1..(i - 1) :
                                  UnmarshalTaskMetadata(metadata[j]).err = "none"]).err,
        val |-> <<>>]
  ELSE [err |-> "none",
        val |-> [i \in 1..Len(metadata) |-> UnmarshalTaskMetadata(metadata[i]).val]]

GetAllTasks(p) ==
  /\ Begin(p)
  /\ \E ok \in ReadOutcomes, order \in Orders(StorageListKeys(store, TASKMETADATA)) :
       LET metadata == StorageGetPrefix(store, order)
           tml == DecodeTaskRecords(metadata)
       IN /\ failures' = failures
          /\ IF ~ok
             THEN Return(p, [op |-> "GetAllTasks", err |-> "backend", val |-> <<>>])
             ELSE Return(p, [op |-> "GetAllTasks", err |-> tml.err, val |-> tml.val])
  /\ UNCHANGED <<store, now, ghost>>

DecodeRunRecords(recs) ==
  IF \E i \in 1..Len(recs) : UnmarshalTaskRunMetadata(recs[i]).err # "none"
  THEN [err |-> "failed to unmarshal run record", val |-> <<>>]
  ELSE [err |-> "none",
        val |-> [i \in 1..Len(recs) |-> UnmarshalTaskRunMetadata(recs[i]).val]]

GetAllTaskRunsPrefixConst == TASKRUNMETADATA

GetAllTaskRunsPrefix == <<"tasks/runs/metadata">>

GetAllTaskRuns(p) ==
  /\ Begin(p)
  /\ \E ok \in ReadOutcomes, order \in Orders(StorageListKeys(store, GetAllTaskRunsPrefix)) :
       LET recs == StorageGetPrefix(store, order)
           runs == DecodeRunRecords(recs)
       IN /\ failures' = failures
          /\ IF ~ok
             THEN Return(p, [op |-> "GetAllTaskRuns", err |-> "backend", val |-> <<>>])
             ELSE Return(p, [op |-> "GetAllTaskRuns", err |-> runs.err, val |-> runs.val])
  /\ UNCHANGED <<store, now, ghost>>

(* GetRunsByDate scans the day of start, formatted in the location start   *)
(* carries and without a closing "/", and skips the records that started   *)
(* after start; end is not read.                                           *)
DayPrefix(start) ==
  RunDetailPrefix \o <<"/">> \o Itoa(Year(start)) \o <<"/", Month(start), "/">>
    \o Itoa(Day(start))

After(t, u) == t.t > u.t

DateInputs ==
  {[start |-> TimeOf(5, 0), end |-> TimeOf(240, 0)],
   [start |-> TimeOf(48, 0), end |-> TimeOf(72, 0)],
   [start |-> TimeOf(216, 0), end |-> TimeOf(216, 0)],
   [start |-> TimeOf(26, LocalZone), end |-> TimeOf(48, LocalZone)],
   [start |-> TimeOf(216, LocalZone), end |-> TimeOf(240, LocalZone)]}

GetRunsByDate(p) ==
  /\ Begin(p)
  /\ \E in \in DateInputs, ok \in ReadOutcomes :
     \E order \in Orders(StorageListKeys(store, DayPrefix(in.start))) :
       LET recs == StorageGetPrefix(store, order)
           decoded == DecodeRunRecords(recs)
           runs == SelectSeq(decoded.val, LAMBDA taskRun : ~After(taskRun.StartTime, in.start))
           r(e, v) == [op |-> "GetRunsByDate", start |-> in.start, end |-> in.end,
                       err |-> e, val |-> v]
       IN /\ failures' = failures
          /\ IF ~ok THEN Return(p, r("backend", <<>>))
             ELSE IF decoded.err # "none" THEN Return(p, r(decoded.err, <<>>))
             ELSE Return(p, r("none", runs))
  /\ UNCHANGED <<store, now, ghost>>

(* The scans are single reads: what they return is a function of the store *)
(* at the time of the read.  They are explored over the stores that        *)
(* CreateTask and CreateTaskRun calls, one after the other and with every  *)
(* KV operation succeeding, leave behind, alone or together with a record  *)
(* of another writer that does not decode.                                 *)
MaxScanTasks == 2
MaxScanRuns == 2

CallerOf(i) == ((i - 1) % Cardinality(Procs)) + 1

InputOf(S) == CHOOSE in \in S : TRUE

AfterCreateTask(st, in, d) ==
  LET keys == StorageListKeys(st.store, TASKMETADATA)
      latest == IF keys = {} THEN [err |-> "none", val |-> 0] ELSE getLatestID(keys)
      metadata == NewTaskMetadata(latest.val, in, d)
      runs == [TaskID |-> metadata.ID, Runs |-> <<>>]
  IN [store |-> StorageSet(StorageSet(st.store, GetTaskMetadataKey(metadata.ID),
                                      MarshalTaskMetadata(metadata)),
                           GetTaskRunsKey(metadata.ID), MarshalTaskRuns(runs)),
      createdTasks |-> Append(st.createdTasks, metadata),
      createdRuns |-> st.createdRuns,
      now |-> d]

AfterCreateTaskRun(st, in, taskID, d) ==
  LET u == UnmarshalTaskRuns(st.store[GetTaskRunsKey(taskID)])
      latestID == getHighestRunID(u.val)
      startTime == UTC(Now(d))
      metadata == NewTaskRunMetadata(latestID, taskID, in, startTime)
      runs == AppendRun(u.val, metadata, startTime)
  IN [store |-> StorageSet(StorageSet(st.store, GetTaskRunsKey(taskID), MarshalTaskRuns(runs)),
                           CreateTaskRunKey(startTime, taskID, metadata.ID),
                           MarshalTaskRunMetadata(metadata)),
      createdTasks |-> st.createdTasks,
      createdRuns |-> Append(st.createdRuns, metadata),
      now |-> d]

RECURSIVE AfterTasks(_)
AfterTasks(n) ==
  IF n = 0 THEN [store |-> <<>>, createdTasks |-> <<>>, createdRuns |-> <<>>, now |-> 0]
  ELSE AfterCreateTask(AfterTasks(n - 1), InputOf(TaskInputs(CallerOf(n))), 0)

RECURSIVE AfterRuns(_, _)
AfterRuns(st, q) ==
  IF q = <<>> THEN st
  ELSE AfterCreateTaskRun(AfterRuns(st, SubSeq(q, 1, Len(q) - 1)),
                          InputOf(RunInputs(CallerOf(Len(q)))),
                          q[Len(q)][1], q[Len(q)][2])

RunSeqs(n) ==
  UNION {{q \in [1..k -> (1..n) \X ClockValues] :
            \A i \in 1..(k - 1) : q[i][2] <= q[i + 1][2]} : k \in 0..MaxScanRuns}

ForeignTaskKey == TASKMETADATA \o <<"9">>

ForeignTaskRecord ==
  [MarshalTaskMetadata(NewTaskMetadata(8, InputOf(TaskInputs(1)), 0))
     EXCEPT !.targetType = "NoSuchTarget"]

ForeignRunKey(d) == CreateTaskRunKey(UTC(Now(d)), 9, 1)

ForeignRunRecord(d) ==
  [MarshalTaskRunMetadata(NewTaskRunMetadata(0, 9, InputOf(RunInputs(1)), UTC(Now(d))))
     EXCEPT !.status = "NOSTATUS"]

ForeignRecords ==
  {<<>>, ForeignTaskKey :> ForeignTaskRecord}
    \cup {ForeignRunKey(d) :> ForeignRunRecord(d) : d \in ClockValues}

ScanStates ==
  UNION {{[AfterRuns(AfterTasks(n), q) EXCEPT !.store = f @@ @] :
            q \in RunSeqs(n), f \in ForeignRecords} : n \in 0..MaxScanTasks}

InitScan ==
  /\ \E st \in ScanStates :
       /\ store = st.store
       /\ now = st.now
       /\ createdTasks = st.createdTasks
       /\ createdRuns = st.createdRuns
       /\ calls = Len(st.createdTasks) + Len(st.createdRuns)
  /\ pc = [p \in Procs |-> "idle"]
  /\ loc = [p \in Procs |-> NoLoc]
  /\ ret = NoRet
  /\ failures = 0
  /\ overlaps = 0
  /\ overlapCT = FALSE
  /\ overlapCR = {}
  /\ orphans = {}

NextScan ==
  \/ TakeResult
  \/ \E p \in Procs : GetAllTasks(p)
  \/ \E p \in Procs : GetAllTaskRuns(p)
  \/ \E p \in Procs : GetRunsByDate(p)

SpecScan == InitScan /\ [][NextScan]_vars

(* ---------------------------- FilterByStatus ---------------------------- *)
(* TaskRunList.FilterByStatus replaces the list of its receiver.  It is    *)
(* applied to lists of runs of any statuses, held by the first caller.     *)
FilterByStatusInverted(trl, status) == SelectSeq(trl, LAMBDA run : run.Status # status)

FilterByStatus(trl, status) == SelectSeq(trl, LAMBDA run : run.Status = status)

MaxListLen == 3
MaxFilterCalls == 2

RunWithStatus(i, status) ==
  [NewTaskRunMetadata(i - 1, 1, InputOf(RunInputs(CallerOf(i))), UTC(Now(0)))
     EXCEPT !.Status = status]

TaskRunLists ==
  UNION {{[i \in 1..n |-> RunWithStatus(i, f[i])] : f \in [1..n -> Statuses]} :
           n \in 0..MaxListLen}

CallFilterByStatus(p) ==
  /\ loc[p].op = "FilterByStatus"
  /\ Len(loc[p].statuses) < MaxFilterCalls
  /\ \E status \in Statuses :
       loc' = [loc EXCEPT ![p].trl = FilterByStatus(@, status),
                          ![p].statuses = Append(@, status)]
  /\ UNCHANGED <<store, now, pc, ret, overlaps, failures, ghost>>

InitFilter ==
  /\ \E trl \in TaskRunLists :
       loc = [p \in Procs |->
                IF p = 1 THEN [op |-> "FilterByStatus", trl |-> trl,
                               given |-> trl, statuses |-> <<>>]
                ELSE NoLoc]
  /\ store = <<>>
  /\ now = 0
  /\ pc = [p \in Procs |-> "idle"]
  /\ ret = NoRet
  /\ failures = 0
  /\ overlaps = 0
  /\ calls = 0
  /\ createdTasks = <<>>
  /\ createdRuns = <<>>
  /\ overlapCT = FALSE
  /\ overlapCR = {}
  /\ orphans = {}

NextFilter == \E p \in Procs : CallFilterByStatus(p)

SpecFilter == InitFilter /\ [][NextFilter]_vars

(* --------------------------- deferred operations ------------------------ *)
(* GetTaskByTarget, the run mutations and the run lock return an error and *)
(* issue no KV operation; what they are passed is not read.  The mutations *)
(* and the lock take a run id and no task id.                              *)
NotImplemented == "Not implemented"

LogLines == {"l1", "l2"}

TimeInputs == {UTC(Now(d)) : d \in ClockValues}

GetTaskByTarget(p) ==
  /\ Begin(p)
  /\ \E target \in {NameVariantTarget, ProviderTarget} :
       Return(p, [op |-> "GetTaskByTarget", target |-> target,
                  err |-> NotImplemented, val |-> <<>>])
  /\ failures' = failures
  /\ UNCHANGED <<store, now, ghost>>

SetRunStatusPersisting(p) ==
  /\ Begin(p)
  /\ \E id \in RunIDs, status \in Statuses :
       /\ store' = [k \in DOMAIN store |->
                      IF IsPrefix(RunDetailPrefix, k) /\ store[k].runId = id
                      THEN [store[k] EXCEPT !.status = status] ELSE store[k]]
       /\ Return(p, [op |-> "SetRunStatus", id |-> id, status |-> status, err |-> "none"])
  /\ failures' = failures
  /\ UNCHANGED <<now, ghost>>

SetRunStatus(p) ==
  /\ Begin(p)
  /\ \E id \in RunIDs, status \in Statuses :
       Return(p, [op |-> "SetRunStatus", id |-> id, status |-> status,
                  err |-> NotImplemented])
  /\ failures' = failures
  /\ UNCHANGED <<store, now, ghost>>

SetRunStartTime(p) ==
  /\ Begin(p)
  /\ \E id \in RunIDs, time \in TimeInputs :
       Return(p, [op |-> "SetRunStartTime", id |-> id, time |-> time,
                  err |-> NotImplemented])
  /\ failures' = failures
  /\ UNCHANGED <<store, now, ghost>>

SetRunEndTime(p) ==
  /\ Begin(p)
  /\ \E id \in RunIDs, time \in TimeInputs :
       Return(p, [op |-> "SetRunEndTime", id |-> id, time |-> time,
                  err |-> NotImplemented])
  /\ failures' = failures
  /\ UNCHANGED <<store, now, ghost>>

AppendRunLog(p) ==
  /\ Begin(p)
  /\ \E id \in RunIDs, log \in LogLines :
       Return(p, [op |-> "AppendRunLog", id |-> id, log |-> log,
                  err |-> NotImplemented])
  /\ failures' = failures
  /\ UNCHANGED <<store, now, ghost>>

LockTaskRun(p) ==
  /\ Begin(p)
  /\ \E runId \in RunIDs :
       Return(p, [op |-> "LockTaskRun", runId |-> runId, err |-> NotImplemented])
  /\ failures' = failures
  /\ UNCHANGED <<store, now, ghost>>

UnlockTaskRun(p) ==
  /\ Begin(p)
  /\ \E runId \in RunIDs :
       Return(p, [op |-> "UnlockTaskRun", runId |-> runId, err |-> NotImplemented])
  /\ failures' = failures
  /\ UNCHANGED <<store, now, ghost>>

(* Every operation that is not a creation, over the stores the creations   *)
(* leave behind.                                                           *)
NextRead ==
  \/ TakeResult
  \/ \E p \in Procs : GetTaskByID(p)
  \/ \E p \in Procs : GetTaskByTarget(p)
  \/ \E p \in Procs : GetAllTasks(p)
  \/ \E p \in Procs : GetRunByIDGetRuns(p)
  \/ \E p \in Procs : GetRunByIDGetRec(p)
  \/ \E p \in Procs : GetRunsByDate(p)
  \/ \E p \in Procs : GetAllTaskRuns(p)
  \/ \E p \in Procs : SetRunStatus(p)
  \/ \E p \in Procs : SetRunStartTime(p)
  \/ \E p \in Procs : SetRunEndTime(p)
  \/ \E p \in Procs : AppendRunLog(p)
  \/ \E p \in Procs : LockTaskRun(p)
  \/ \E p \in Procs : UnlockTaskRun(p)

SpecRead == InitScan /\ [][NextRead]_vars

(* ------------------------ TaskRunMetadata codec ------------------------- *)
(* Marshal and Unmarshal of TaskRunMetadata, applied by the first caller   *)
(* to the run values of the data model and to serialized records with one  *)
(* defect at most.                                                         *)
MaxLogs == 1

LogSeqs == UNION {[1..n -> LogLines] : n \in 0..MaxLogs}

Triggers == {OneOffTrigger, DummyTrigger, [DummyTrigger EXCEPT !.DummyField = FALSE]}

TaskRunValues ==
  {[ID |-> id, TaskId |-> taskId, Name |-> "run", Trigger |-> trigger,
    TriggerType |-> TriggerType(trigger), Status |-> status,
    StartTime |-> startTime, EndTime |-> endTime, Logs |-> logs, Error |-> error] :
     id \in RunIDs, taskId \in {12}, trigger \in Triggers, status \in Statuses,
     startTime \in TimeInputs, endTime \in {ZeroTime} \cup TimeInputs,
     logs \in LogSeqs, error \in {"", "failed"}}

Defects ==
  {"none", "syntax", "no name", "no trigger", "trigger array", "trigger type", "status"}

Corrupt(s, defect) ==
  IF defect = "syntax"
  THEN [syntaxError |-> "invalid character '1' after object key:value pair"]
  ELSE IF defect = "no name" THEN [f \in DOMAIN s \ {"name"} |-> s[f]]
  ELSE IF defect = "no trigger" THEN [f \in DOMAIN s \ {"trigger"} |-> s[f]]
  ELSE IF defect = "trigger array"
  THEN [s EXCEPT !.trigger = [array |-> <<s.trigger.triggerName, s.trigger.triggerType>>]]
  ELSE IF defect = "trigger type" THEN [s EXCEPT !.trigger.triggerType = "wrongTrigger"]
  ELSE IF defect = "status" THEN [s EXCEPT !.status = "NOSTATUS"]
  ELSE s

RoundTrip(p) ==
  /\ ret = NoRet
  /\ loc[p].op = "Marshal"
  /\ LET serializedTask == MarshalTaskRunMetadata(loc[p].task)
         deserializedTask == UnmarshalTaskRunMetadata(serializedTask)
     IN ret' = [op |-> "RoundTrip", task |-> loc[p].task,
                err |-> deserializedTask.err, val |-> deserializedTask.val]
  /\ UNCHANGED <<store, now, pc, loc, overlaps, failures, ghost>>

Decode(p) ==
  /\ ret = NoRet
  /\ loc[p].op = "Unmarshal"
  /\ LET response == UnmarshalTaskRunMetadata(loc[p].inputfile)
     IN ret' = [op |-> "Unmarshal", defect |-> loc[p].defect,
                err |-> response.err, val |-> response.val]
  /\ UNCHANGED <<store, now, pc, loc, overlaps, failures, ghost>>

InitCodec ==
  /\ \E task \in TaskRunValues, defect \in Defects \cup {"round trip"} :
       loc = [p \in Procs |->
                IF p # 1 THEN NoLoc
                ELSE IF defect = "round trip" THEN [op |-> "Marshal", task |-> task]
                ELSE [op |-> "Unmarshal", defect |-> defect,
                      inputfile |-> Corrupt(MarshalTaskRunMetadata(task), defect)]]
  /\ store = <<>>
  /\ now = 0
  /\ pc = [p \in Procs |-> "idle"]
  /\ ret = NoRet
  /\ failures = 0
  /\ overlaps = 0
  /\ calls = 0
  /\ createdTasks = <<>>
  /\ createdRuns = <<>>
  /\ overlapCT = FALSE
  /\ overlapCR = {}
  /\ orphans = {}

NextCodec ==
  \/ TakeResult
  \/ \E p \in Procs : RoundTrip(p)
  \/ \E p \in Procs : Decode(p)

SpecCodec == InitCodec /\ [][NextCodec]_vars

(* ------------------------- request id and logger ------------------------ *)
(* A Logger is its id, the fields its SugaredLogger stamps on each line,   *)
(* in the order of the With calls, and its Values map; the Values of a     *)
(* logger built by NewStackTraceLogger is a nil pointer.  A context is the *)
(* function from the keys it holds to their values.                        *)
RequestIDKey == "request-id"

LoggerKey == "logger"

NilMap == [nil |-> TRUE]

NewLogger == [id |-> "", fields |-> <<>>, Values |-> <<>>]

NewStackTraceLogger == [id |-> "", fields |-> <<>>, Values |-> NilMap]

(* NewRequestID returns a fresh UUID.                                      *)
NewRequestID == {"u1", "u2"}

(* Range on a nil *sync.Map dereferences the nil pointer.                  *)
appendValueMap(logger, values) ==
  IF logger.Values = NilMap THEN [panic |-> TRUE]
  ELSE [panic |-> FALSE, val |-> logger.Values @@ values]

WithRequestID(logger, id) ==
  IF id = "" THEN [panic |-> FALSE, val |-> logger]
  ELSE IF logger.id # "" THEN [panic |-> FALSE, val |-> logger]
  ELSE LET valuesWithRequestID == appendValueMap(logger, "request-id" :> id)
       IN IF valuesWithRequestID.panic THEN [panic |-> TRUE]
          ELSE [panic |-> FALSE,
                val |-> [id |-> id,
                         fields |-> Append(logger.fields, <<"request-id", id>>),
                         Values |-> valuesWithRequestID.val]]

ContextWithValue(ctx, key, value) == (key :> value) @@ ctx

InitializeRequestID(logger, ctx, minted) ==
  LET absent == RequestIDKey \notin DOMAIN ctx
      requestID == IF absent THEN minted ELSE ctx[RequestIDKey]
      ctx1 == IF absent THEN ContextWithValue(ctx, RequestIDKey, requestID) ELSE ctx
      noLogger == LoggerKey \notin DOMAIN ctx1
      stamped == WithRequestID(logger, requestID)
  IN IF noLogger /\ stamped.panic THEN [panic |-> TRUE]
     ELSE [panic |-> FALSE,
           id |-> requestID,
           ctx |-> IF noLogger THEN ContextWithValue(ctx1, LoggerKey, stamped.val) ELSE ctx1,
           logger |-> IF noLogger THEN stamped.val ELSE ctx1[LoggerKey]]

(* The loggers and contexts the package builds: NewLogger and              *)
(* NewStackTraceLogger, with or without a request id, and the contexts     *)
(* AttachRequestID and AddLoggerToContext leave behind.                    *)
ContextIDs == {"a", "b"}

Loggers ==
  {NewLogger, NewStackTraceLogger} \cup {WithRequestID(NewLogger, id).val : id \in ContextIDs}

Contexts ==
  {<<>>}
    \cup {RequestIDKey :> id : id \in ContextIDs}
    \cup {LoggerKey :> l : l \in Loggers}
    \cup {(RequestIDKey :> id) @@ (LoggerKey :> l) : id \in ContextIDs, l \in Loggers}

CallInitializeRequestID(p) ==
  /\ ret = NoRet
  /\ loc[p].op = "InitializeRequestID"
  /\ \E minted \in NewRequestID :
       ret' = [op |-> "InitializeRequestID", logger |-> loc[p].logger,
               ctx |-> loc[p].ctx, minted |-> minted,
               out |-> InitializeRequestID(loc[p].logger, loc[p].ctx, minted)]
  /\ UNCHANGED <<store, now, pc, loc, overlaps, failures, ghost>>

InitLog ==
  /\ \E logger \in Loggers, ctx \in Contexts :
       loc = [p \in Procs |->
                IF p = 1 THEN [op |-> "InitializeRequestID", logger |-> logger, ctx |-> ctx]
                ELSE NoLoc]
  /\ store = <<>>
  /\ now = 0
  /\ pc = [p \in Procs |-> "idle"]
  /\ ret = NoRet
  /\ failures = 0
  /\ overlaps = 0
  /\ calls = 0
  /\ createdTasks = <<>>
  /\ createdRuns = <<>>
  /\ overlapCT = FALSE
  /\ overlapCR = {}
  /\ orphans = {}

NextLog ==
  \/ TakeResult
  \/ \E p \in Procs : CallInitializeRequestID(p)

SpecLog == InitLog /\ [][NextLog]_vars

(* --------------------------- logger decoration ------------------------- *)
(* WithResource, WithProvider and WithValues stamp the arguments that are  *)
(* not empty and merge them into Values, where an entry the logger already *)
(* holds wins over a new one; they keep the id.  The calls are applied one *)
(* after the other to a logger the first caller holds, starting from a     *)
(* logger of either constructor; a call that panics ends the sequence.     *)
StampAll(fields, pairs) ==
  fields \o SelectSeq(pairs, LAMBDA kv : kv[2] # "")

ValuesOf(pairs) ==
  LET set == SelectSeq(pairs, LAMBDA kv : kv[2] # "")
  IN [k \in {set[i][1] : i \in 1..Len(set)} |->
        set[CHOOSE i \in 1..Len(set) : set[i][1] = k][2]]

WithResource(logger, resourceType, name, variant) ==
  LET pairs == <<(<<"resource-type", resourceType>>), (<<"resource-name", name>>),
                 (<<"resource-variant", variant>>)>>
      combinedValues == appendValueMap(logger, ValuesOf(pairs))
  IN IF combinedValues.panic THEN [panic |-> TRUE]
     ELSE [panic |-> FALSE,
           val |-> [id |-> logger.id, fields |-> StampAll(logger.fields, pairs),
                    Values |-> combinedValues.val]]

WithProvider(logger, providerType, providerName) ==
  LET pairs == <<(<<"provider-type", providerType>>), (<<"provider-name", providerName>>)>>
      combinedValues == appendValueMap(logger, ValuesOf(pairs))
  IN IF combinedValues.panic THEN [panic |-> TRUE]
     ELSE [panic |-> FALSE,
           val |-> [id |-> logger.id, fields |-> StampAll(logger.fields, pairs),
                    Values |-> combinedValues.val]]

WithValues(logger, values) ==
  LET combinedValues == appendValueMap(logger, values)
  IN IF combinedValues.panic THEN [panic |-> TRUE]
     ELSE [panic |-> FALSE,
           val |-> [id |-> logger.id, fields |-> logger.fields,
                    Values |-> combinedValues.val]]

GetRequestID(logger) == logger.id

MaxLoggerCalls == 3

RequestIDInputs == {""} \cup ContextIDs

ResourceInputs == {<<"", "", "">>, <<"feature", "n", "v">>, <<"feature", "n", "">>}

ProviderInputs == {<<"", "">>, <<"postgres", "pg">>}

ValuesInputs == {<<>>, "owner" :> "o", "request-id" :> "x"}

Applied(p, call, arg, out) ==
  /\ loc[p].op = "Logger"
  /\ ~loc[p].panic
  /\ loc[p].n < MaxLoggerCalls
  /\ loc' = [loc EXCEPT ![p] =
               [op |-> "Logger",
                logger |-> IF out.panic THEN loc[p].logger ELSE out.val,
                panic |-> out.panic,
                passed |-> IF call = "WithRequestID" THEN Append(loc[p].passed, arg)
                           ELSE loc[p].passed,
                last |-> [call |-> call, before |-> loc[p].logger],
                n |-> loc[p].n + 1]]
  /\ UNCHANGED <<store, now, pc, ret, overlaps, failures, ghost>>

CallWithRequestID(p) ==
  \E id \in RequestIDInputs :
    Applied(p, "WithRequestID", id, WithRequestID(loc[p].logger, id))

CallWithResource(p) ==
  \E a \in ResourceInputs :
    Applied(p, "WithResource", a, WithResource(loc[p].logger, a[1], a[2], a[3]))

CallWithProvider(p) ==
  \E a \in ProviderInputs :
    Applied(p, "WithProvider", a, WithProvider(loc[p].logger, a[1], a[2]))

CallWithValues(p) ==
  \E values \in ValuesInputs :
    Applied(p, "WithValues", values, WithValues(loc[p].logger, values))

InitLogger ==
  /\ \E logger \in {NewLogger, NewStackTraceLogger} :
       loc = [p \in Procs |->
                IF p = 1 THEN [op |-> "Logger", logger |-> logger, panic |-> FALSE,
                               passed |-> <<>>,
                               last |-> [call |-> "none", before |-> logger], n |-> 0]
                ELSE NoLoc]
  /\ store = <<>>
  /\ now = 0
  /\ pc = [p \in Procs |-> "idle"]
  /\ ret = NoRet
  /\ failures = 0
  /\ overlaps = 0
  /\ calls = 0
  /\ createdTasks = <<>>
  /\ createdRuns = <<>>
  /\ overlapCT = FALSE
  /\ overlapCR = {}
  /\ orphans = {}

NextLogger ==
  \/ \E p \in Procs : CallWithRequestID(p)
  \/ \E p \in Procs : CallWithResource(p)
  \/ \E p \in Procs : CallWithProvider(p)
  \/ \E p \in Procs : CallWithValues(p)

SpecLogger == InitLogger /\ [][NextLogger]_vars

(* ============================== properties ============================== *)
IndexRuns(s, t) == UnmarshalTaskRuns(s[GetTaskRunsKey(t)]).val.Runs

RunsOf(t) == {i \in 1..Len(createdRuns) : createdRuns[i].TaskId = t}

InCreateTaskRun(t) == \E p \in Procs : loc[p].op = "CreateTaskRun" /\ loc[p].taskID = t

(* C1: when CreateTask calls do not overlap and every KV write succeeds,   *)
(* the n-th successful CreateTask on the initially empty store returns ID  *)
(* n, so the returned IDs are 1..n in call order.                          *)
C1_SequentialTaskIDs ==
  (~overlapCT /\ failures = 0) =>
     \A i \in 1..Len(createdTasks) : createdTasks[i].ID = i

C1_Witness ==
  /\ ~overlapCT
  /\ failures = 0
  /\ Len(createdTasks) = 3
  /\ createdTasks[3].ID = 3

(* C2: no two successful CreateTask calls return the same ID, also when    *)
(* the calls overlap.                                                      *)
C2_TaskIDsUnique ==
  \A i, j \in 1..Len(createdTasks) :
     i # j => createdTasks[i].ID # createdTasks[j].ID

(* C3: GetTaskByID(t.ID), issued at any point after a successful           *)
(* CreateTask returned t and with no overlapping CreateTask calls, returns *)
(* without error a value equal to t.                                       *)
C3_GetTaskByIDReturnsCreated ==
  (ret.op = "GetTaskByID" /\ ret.err # "backend" /\ ~overlapCT) =>
     \A i \in 1..Len(createdTasks) :
        createdTasks[i].ID = ret.id => (ret.err = "none" /\ ret.val = createdTasks[i])

C3_Witness ==
  /\ ret.op = "GetTaskByID"
  /\ ret.err = "none"
  /\ ~overlapCT
  /\ Len(createdTasks) = 2
  /\ createdRuns # <<>>
  /\ ret.val = createdTasks[1]

(* C4: once the task-detail key of an ID holds a value, no manager step    *)
(* changes the value stored at that key, also when CreateTask calls        *)
(* overlap.                                                                *)
C4_TaskMetadataImmutable ==
  [][\A k \in DOMAIN store : IsPrefix(TASKMETADATA, k) => store'[k] = store[k]]_vars

(* C5: when CreateTaskRun calls on one task do not overlap, each write of  *)
(* that task's runs index appends one entry whose RunID is 1 for an empty  *)
(* index and max(RunIDs in the index) + 1 otherwise, whatever the other    *)
(* tasks hold, and the call returns the run with that RunID.               *)
ExpectedRunID(runs) ==
  IF Len(runs) = 0 THEN 1
  ELSE (CHOOSE x \in {runs[i].RunID : i \in 1..Len(runs)} :
          \A i \in 1..Len(runs) : runs[i].RunID <= x) + 1

C6_RunIDsFresh ==
  \A i, j \in 1..Len(createdRuns) :
     (i < j /\ createdRuns[i].TaskId = createdRuns[j].TaskId)
        => createdRuns[i].ID # createdRuns[j].ID

(* C7: when exactly two CreateTaskRun calls on a task overlap and both     *)
(* return successfully, at most one of the two runs is missing from the    *)
(* runs index, and GetRunByID on a run listed in the index returns without *)
(* error.                                                                  *)
TwoRacedRuns(t) ==
  /\ t \in overlapCR
  /\ ~overlapCT
  /\ failures = 0
  /\ Cardinality(RunsOf(t)) = 2
  /\ ~InCreateTaskRun(t)

C7_RacedRunsFetchable ==
  \A t \in TaskIDs :
     TwoRacedRuns(t) =>
        /\ 2 - Len(IndexRuns(store, t)) <= 1
        /\ (/\ ret.op = "GetRunByID"
            /\ ret.taskID = t
            /\ ret.err # "backend"
            /\ \E i \in 1..Len(IndexRuns(store, t)) :
                  IndexRuns(store, t)[i].RunID = ret.runID)
           => ret.err = "none"

C7_Witness ==
  \E t \in TaskIDs :
     /\ TwoRacedRuns(t)
     /\ Len(IndexRuns(store, t)) = 1
     /\ ret.op = "GetRunByID"
     /\ ret.taskID = t
     /\ ret.err = "none"

(* C8: each write of a runs-index key stores a sequence that has the       *)
(* previously stored sequence as a prefix, also when CreateTaskRun calls   *)
(* overlap.                                                                *)
C8_RunsIndexAppendOnly ==
  [][\A t \in TaskIDs :
        GetTaskRunsKey(t) \in DOMAIN store =>
           LET old == IndexRuns(store, t)
               new == IndexRuns(store', t)
           IN Len(old) <= Len(new) /\ SubSeq(new, 1, Len(old)) = old]_vars

(* C9 (as stated): in every reachable state, every entry of a runs index   *)
(* has its run-detail key in the store.                                    *)
HasDetail(t, e) == GetRunByIDKey(e.DateCreated, t, e.RunID) \in DOMAIN store

C9_IndexedRunsHaveDetail ==
  \A t \in TaskIDs :
     GetTaskRunsKey(t) \in DOMAIN store =>
        \A i \in 1..Len(IndexRuns(store, t)) : HasDetail(t, IndexRuns(store, t)[i])

(* C9 (amended): every entry of a runs index has its run-detail key in the *)
(* store, except while a CreateTaskRun that wrote the entry is between its *)
(* two writes and after the run-detail write of the entry failed.          *)
BetweenWrites(t, e) ==
  \E p \in Procs :
     /\ pc[p] = "cr_set_metadata"
     /\ loc[p].taskID = t
     /\ e = [RunID |-> loc[p].metadata.ID, DateCreated |-> loc[p].startTime]

C9_IndexedRunsHaveDetailUnlessPartial ==
  \A t \in TaskIDs :
     GetTaskRunsKey(t) \in DOMAIN store =>
        \A i \in 1..Len(IndexRuns(store, t)) :
           LET e == IndexRuns(store, t)[i]
           IN HasDetail(t, e) \/ BetweenWrites(t, e) \/ <<t, e>> \in orphans

C9_Witness ==
  /\ ret.op = "CreateTaskRun"
  /\ ret.err = "none"
  /\ Len(IndexRuns(store, ret.taskID)) = 2
  /\ \A i \in 1..2 : HasDetail(ret.taskID, IndexRuns(store, ret.taskID)[i])

(* C10: with no overlapping calls, GetRunByID(taskId, r.ID) issued after a *)
(* successful CreateTaskRun returned r returns without error a record      *)
(* equal to r, with Status Pending, zero EndTime and empty Logs.           *)
C10_GetRunByIDReturnsCreated ==
  (/\ ret.op = "GetRunByID"
   /\ ret.err # "backend"
   /\ ~overlapCT
   /\ ret.taskID \notin overlapCR) =>
     \A i \in 1..Len(createdRuns) :
        (createdRuns[i].TaskId = ret.taskID /\ createdRuns[i].ID = ret.runID) =>
           /\ ret.err = "none"
           /\ ret.val = createdRuns[i]
           /\ ret.val.Status = "PENDING"
           /\ ret.val.EndTime = ZeroTime
           /\ ret.val.Logs = <<>>

C10_Witness ==
  /\ ret.op = "GetRunByID"
  /\ ret.err = "none"
  /\ ~overlapCT
  /\ overlapCR = {}
  /\ Len(createdRuns) = 2
  /\ ret.val = createdRuns[2]
  /\ ret.val.ID = 2

(* C11: GetTaskByID(id) on an absent task-detail key, for which the store  *)
(* returns an empty result, returns a not-found error and no task value,   *)
(* and the message is "task not found for id: " followed by the decimal id.*)
C11_TaskNotFoundMessage ==
  (/\ ret.op = "GetTaskByID"
   /\ ~StorageHas(store, GetTaskMetadataKey(ret.id))
   /\ ret.err \notin {"backend", "provider miss"}) =>
     /\ ret.err = "task not found"
     /\ "val" \notin DOMAIN ret
     /\ ret.msg = <<"task not found for id: ">> \o Itoa(ret.id)

(* C12: a GetRunByID that returns from its read of the runs index, the    *)
(* index holding no entry with the requested RunID, returns "run not       *)
(* found" and no run value; a GetRunByID that returns "run not found" has  *)
(* read no run-detail key, and a run-detail key is read only for an index  *)
(* entry that has the requested RunID.                                     *)
Listed(s, t, r) ==
  /\ GetTaskRunsKey(t) \in DOMAIN s
  /\ \E i \in 1..Len(IndexRuns(s, t)) : IndexRuns(s, t)[i].RunID = r

C12_RunNotFound ==
  /\ (/\ ret.op = "GetRunByID"
      /\ "runRecord" \notin DOMAIN ret
      /\ ret.err # "backend"
      /\ GetTaskRunsKey(ret.taskID) \in DOMAIN store
      /\ ~Listed(store, ret.taskID, ret.runID))
     => (ret.err = "run not found" /\ "val" \notin DOMAIN ret)
  /\ (ret.op = "GetRunByID" /\ ret.err = "run not found")
     => "runRecord" \notin DOMAIN ret
  /\ \A p \in Procs :
        pc[p] = "gr_get_rec" => loc[p].runRecord.RunID = loc[p].runID
  /\ (ret.op = "GetRunByID" /\ "runRecord" \in DOMAIN ret)
     => ret.runRecord.RunID = ret.runID

C12_Witness ==
  /\ ret.op = "GetRunByID"
  /\ ret.err = "run not found"
  /\ IndexRuns(store, ret.taskID) # <<>>
  /\ ~Listed(store, ret.taskID, ret.runID)

(* C13: a GetRunByID whose read of the run-detail key of a listed run gets *)
(* an empty result returns a "detail missing" error, does not panic, and   *)
(* leaves the store unchanged.                                             *)
C13_MissingDetailIsNotFound ==
  [][\A p \in Procs :
        (/\ pc[p] = "gr_get_rec"
         /\ pc'[p] = "idle"
         /\ ~HasDetail(loc[p].taskID, loc[p].runRecord)
         /\ ret'.err \notin {"backend", "provider miss"})
        => (ret'.err = "detail missing" /\ store' = store)
    ]_vars

(* C14: when the runs-index key of a task is missing and the store returns *)
(* an empty result for it, CreateTaskRun on the task returns a run with    *)
(* RunID 1 and GetRunByID returns "run not found"; neither panics.         *)
C14_MissingIndexIsEmpty ==
  (/\ ret.op \in {"CreateTaskRun", "GetRunByID"}
   /\ ~StorageHas(store, GetTaskRunsKey(ret.taskID))
   /\ ret.err \notin {"backend", "provider miss"}) =>
     /\ ret.op = "GetRunByID" => ret.err = "run not found"
     /\ ret.op = "CreateTaskRun" => (ret.err = "none" /\ ret.val.ID = 1)

TaskDetailKeys(s) == {k \in DOMAIN s : IsPrefix(TASKMETADATA, k)}

(* C15: GetRunsByDate(start, end) returns a run stored under the scanned   *)
(* day prefix if and only if start <= run.StartTime <= end.                *)
InList(x, list) == \E i \in 1..Len(list) : list[i] = x

C15_RunsByDateWithinRange ==
  (ret.op = "GetRunsByDate" /\ ret.err = "none") =>
     \A k \in StorageListKeys(store, DayPrefix(ret.start)) :
        LET run == UnmarshalTaskRunMetadata(store[k]).val
        IN InList(run, ret.val)
             <=> (ret.start.t <= run.StartTime.t /\ run.StartTime.t <= ret.end.t)

WrittenRunKeys ==
  {CreateTaskRunKey(createdRuns[i].StartTime, createdRuns[i].TaskId, createdRuns[i].ID) :
     i \in 1..Len(createdRuns)}

Occurrences(x, list) == Cardinality({i \in 1..Len(list) : list[i] = x})

C17_GetAllTaskRunsExact ==
  (ret.op = "GetAllTaskRuns" /\ ret.err # "backend") =>
     IF \A k \in StorageListKeys(store, RunDetailPrefix) :
           UnmarshalTaskRunMetadata(store[k]).err = "none"
     THEN /\ ret.err = "none"
          /\ Len(ret.val) = Cardinality(WrittenRunKeys)
          /\ \A k \in WrittenRunKeys :
               /\ k \in DOMAIN store
               /\ Occurrences(UnmarshalTaskRunMetadata(store[k]).val, ret.val) = 1
          /\ \A i \in 1..Len(createdRuns) : Occurrences(createdRuns[i], ret.val) = 1
     ELSE ret.err # "none" /\ ret.val = <<>>

C17_Witness ==
  /\ ret.op = "GetAllTaskRuns"
  /\ ret.err = "none"
  /\ Len(ret.val) = 2
  /\ ret.val[1].TaskId # ret.val[2].TaskId
  /\ Day(ret.val[1].StartTime) # Day(ret.val[2].StartTime)

(* C18: after n successful CreateTask calls on the empty store, made one   *)
(* after the other, GetAllTasks returns n tasks, each created task once,   *)
(* in some order, and no runs-index or run-detail record; when a task      *)
(* record in the store does not decode it returns an error and an empty    *)
(* list.                                                                   *)
C18_GetAllTasksExact ==
  (ret.op = "GetAllTasks" /\ ret.err # "backend" /\ ~overlapCT /\ failures = 0) =>
     IF \A k \in TaskDetailKeys(store) : UnmarshalTaskMetadata(store[k]).err = "none"
     THEN /\ ret.err = "none"
          /\ Len(ret.val) = Len(createdTasks)
          /\ \A i \in 1..Len(createdTasks) : Occurrences(createdTasks[i], ret.val) = 1
          /\ {ret.val[i].ID : i \in 1..Len(ret.val)} = 1..Len(createdTasks)
     ELSE ret.err # "none" /\ ret.val = <<>>

C18_Witness ==
  /\ ret.op = "GetAllTasks"
  /\ ret.err = "none"
  /\ Len(createdTasks) = 2
  /\ Len(ret.val) = 2
  /\ ret.val[1] = createdTasks[2]
  /\ createdRuns # <<>>

(* C19: after FilterByStatus(s) the list of the receiver holds the runs of *)
(* the given list whose Status is s, each once and in the order they had;  *)
(* an empty list stays empty, and a second FilterByStatus(s) leaves the    *)
(* list as the first left it.                                              *)
Matching(list, status) == {i \in 1..Len(list) : list[i].Status = status}

NthOf(S, n) == CHOOSE i \in S : Cardinality({k \in S : k <= i}) = n

KeepsMatchingInOrder(new, old, status) ==
  /\ Len(new) = Cardinality(Matching(old, status))
  /\ \A n \in 1..Len(new) : new[n] = old[NthOf(Matching(old, status), n)]

C19_FilterByStatusKeepsMatching ==
  \A p \in Procs :
     (loc[p].op = "FilterByStatus" /\ loc[p].statuses # <<>>) =>
        LET h == loc[p].statuses
        IN /\ (\A i \in 1..Len(h) : h[i] = h[1])
                => KeepsMatchingInOrder(loc[p].trl, loc[p].given, h[1])
           /\ loc[p].given = <<>> => loc[p].trl = <<>>

C19_Witness ==
  \E p \in Procs :
     /\ loc[p].op = "FilterByStatus"
     /\ loc[p].statuses = <<"FAILED", "FAILED">>
     /\ Len(loc[p].given) = 3
     /\ loc[p].given[2].Status = "PENDING"
     /\ Len(loc[p].trl) = 2
     /\ loc[p].trl[2] = loc[p].given[3]

(* C20: a CreateTask returns a task only when both of its Sets succeeded, *)
(* and an error and no task when a Set failed; when the runs-index Set     *)
(* failed, the task-detail record of the call is stored and the task has   *)
(* no runs index; a CreateTask fails only on an error of a KV operation,   *)
(* and it writes its task-detail record under an ID that has no            *)
(* task-detail record, so it changes no record written earlier.            *)
(* CreateTask calls do not overlap.                                        *)
C20_CreateTaskPartialWriteAndRetry ==
  ~overlapCT =>
    /\ ret.op = "CreateTask" =>
         /\ ret.err \in {"none", "backend"}
         /\ ret.err = "none" =>
              /\ store[GetTaskMetadataKey(ret.val.ID)] = MarshalTaskMetadata(ret.val)
              /\ GetTaskRunsKey(ret.val.ID) \in DOMAIN store
         /\ ret.err = "backend" => "val" \notin DOMAIN ret
         /\ (ret.err = "backend" /\ ret.at = "SetMetadata") =>
              GetTaskMetadataKey(ret.id) \notin DOMAIN store
         /\ (ret.err = "backend" /\ ret.at = "SetRuns") =>
              /\ GetTaskMetadataKey(ret.id) \in DOMAIN store
              /\ GetTaskRunsKey(ret.id) \notin DOMAIN store
    /\ \A p \in Procs :
         pc[p] = "ct_set_metadata" =>
            GetTaskMetadataKey(loc[p].metadata.ID) \notin DOMAIN store
    /\ \A i \in 1..Len(createdTasks) :
         store[GetTaskMetadataKey(createdTasks[i].ID)] = MarshalTaskMetadata(createdTasks[i])

C20_Witness ==
  /\ ret.op = "CreateTask"
  /\ ret.err = "none"
  /\ ~overlapCT
  /\ failures = 1
  /\ ret.val.ID = 2
  /\ GetTaskMetadataKey(1) \in DOMAIN store
  /\ GetTaskRunsKey(1) \notin DOMAIN store
  /\ createdTasks = <<ret.val>>

Rank(status) == IF status = "PENDING" THEN 0 ELSE IF status = "RUNNING" THEN 1 ELSE 2

DetailKeysOfRun(s, id) ==
  {k \in DOMAIN s : IsPrefix(RunDetailPrefix, k) /\ s[k].runId = id
                      /\ s[k].status \in Statuses}

(* C21: Status only moves Pending -> Running -> {Succeeded, Failed}:       *)
(* SetRunStatus on a run in a terminal status fails with "invalid          *)
(* transition" and leaves the record as it was, and any other write that   *)
(* does not regress is accepted and persisted.                             *)
C21_StatusTransitions ==
  [][(ret'.op = "SetRunStatus") =>
       \A k \in DetailKeysOfRun(store, ret'.id) :
         IF store[k].status \in {"SUCCEEDED", "FAILED"}
         THEN ret'.err = "invalid transition" /\ store'[k] = store[k]
         ELSE Rank(ret'.status) >= Rank(store[k].status) =>
                ret'.err = "none" /\ store'[k].status = ret'.status]_vars

LeaseKeys(s) ==
  {k \in DOMAIN s : ~IsPrefix(TASKMETADATA, k) /\ ~IsPrefix(TASKRUNS, k)
                      /\ ~IsPrefix(RunDetailPrefix, k)}

(* C22: LockTaskRun succeeds iff no unexpired lease exists on the run, so  *)
(* an attempt on a run with no lease succeeds.  A lease would be a record  *)
(* outside the three record families.                                      *)
C22_LockWithoutLeaseSucceeds ==
  (ret.op = "LockTaskRun" /\ LeaseKeys(store) = {}) => ret.err = "none"

(* C23: AppendRunLog appends the line to the end of the Logs of the run    *)
(* and keeps the earlier lines: no appended line is lost.                  *)
C23_AppendRunLogAppends ==
  [][(ret'.op = "AppendRunLog") =>
       \A k \in DetailKeysOfRun(store, ret'.id) :
         ret'.err = "none" /\ store'[k].logs = Append(store[k].logs, ret'.log)]_vars

ReadOps ==
  {"GetTaskByID", "GetAllTasks", "GetRunByID", "GetRunsByDate", "GetAllTaskRuns"}

DeferredOps ==
  {"GetTaskByTarget", "SetRunStatus", "SetRunStartTime", "SetRunEndTime",
   "AppendRunLog", "LockTaskRun", "UnlockTaskRun"}

(* C28: the reads GetTaskByID, GetAllTasks, GetRunByID, GetRunsByDate and  *)
(* GetAllTaskRuns, and the operations that are not implemented, leave the  *)
(* KV store as it was, whether they succeed or return an error.            *)
C28_ReadsLeaveStoreUnchanged ==
  [][((ret'.op \in ReadOps \cup DeferredOps)
        \/ (\E p \in Procs : pc[p] = "idle" /\ pc'[p] = "gr_get_rec"))
       => store' = store]_vars

C28_Witness ==
  /\ store # <<>>
  /\ \/ ret.op \in DeferredOps
     \/ ret.op \in ReadOps /\ ret.err # "none"

(* C27: every run-detail key written or read renders its year, month and   *)
(* day from the UTC form of the timestamp: for one instant, whatever zone  *)
(* the timestamp carries, the day prefix GetRunsByDate scans is the day of *)
(* the key CreateTaskRun writes and of the key GetRunByID reads.           *)
C27_KeysRenderUTCDay ==
  (ret.op = "GetRunsByDate") =>
     \A taskID \in TaskIDs, runID \in RunIDs :
       /\ IsPrefix(DayPrefix(ret.start) \o <<"/">>,
                   CreateTaskRunKey(UTC(ret.start), taskID, runID))
       /\ IsPrefix(DayPrefix(ret.start) \o <<"/">>,
                   GetRunByIDKey(UTC(ret.start), taskID, runID))

(* C30: GetRunsByDate never returns a run whose StartTime lies on another  *)
(* UTC calendar day than start, although the prefix of day 1 is a string   *)
(* prefix of the keys of days 10 to 19.                                    *)
C30_RunsByDateSameUTCDay ==
  (ret.op = "GetRunsByDate" /\ ret.err = "none") =>
     \A i \in 1..Len(ret.val) :
       DayIndex(UTC(ret.val[i].StartTime)) = DayIndex(UTC(ret.start))

(* C29: in every execution, overlapping CreateTaskRun calls on one task    *)
(* included, every run-detail record is listed in the runs index of its    *)
(* task: the index of TaskId t holds an entry whose RunID is the ID of the *)
(* record and whose DateCreated is its StartTime.                          *)
C29_DetailRecordsAreIndexed ==
  \A k \in DOMAIN store :
    IsPrefix(RunDetailPrefix, k) =>
      LET rec == UnmarshalTaskRunMetadata(store[k]).val
      IN /\ StorageHas(store, GetTaskRunsKey(rec.TaskId))
         /\ \E i \in 1..Len(IndexRuns(store, rec.TaskId)) :
              /\ IndexRuns(store, rec.TaskId)[i].RunID = rec.ID
              /\ IndexRuns(store, rec.TaskId)[i].DateCreated = rec.StartTime

C25_CorruptInputIsRejected ==
  (ret.op = "Unmarshal" /\ ret.defect # "none") => (ret.err # "none" /\ ret.val = <<>>)

C25_Witness ==
  /\ ret.op = "Unmarshal"
  /\ ret.defect = "no name"
  /\ ret.err = "Missing field 'name'"

(* C26: InitializeRequestID returns a request id, a context and a logger   *)
(* that agree: the id is the one in the context when it holds one and the  *)
(* newly minted one otherwise, the returned context carries that id, and   *)
(* the returned logger is stamped with it, whether or not the context      *)
(* passed in holds a request id and a logger.                              *)
C26_RequestIDContextLoggerAgree ==
  (ret.op = "InitializeRequestID") =>
     /\ ~ret.out.panic
     /\ ret.out.id = (IF RequestIDKey \in DOMAIN ret.ctx THEN ret.ctx[RequestIDKey]
                      ELSE ret.minted)
     /\ ret.out.ctx[RequestIDKey] = ret.out.id
     /\ ret.out.logger.id = ret.out.id

(* C31: every run references an existing task: for each runs-index record  *)
(* and each run-detail record in the store the task-detail key of its      *)
(* TaskId exists, and CreateTaskRun with a taskId for which no task was    *)
(* created writes nothing and returns an error.                            *)
C31_RunsReferenceExistingTask ==
  /\ \A k \in DOMAIN store :
       /\ IsPrefix(TASKRUNS, k) =>
            StorageHas(store, GetTaskMetadataKey(UnmarshalTaskRuns(store[k]).val.TaskID))
       /\ IsPrefix(RunDetailPrefix, k) =>
            StorageHas(store, GetTaskMetadataKey(UnmarshalTaskRunMetadata(store[k]).val.TaskId))
  /\ (/\ ret.op = "CreateTaskRun"
      /\ "taskID" \in DOMAIN ret
      /\ ~StorageHas(store, GetTaskMetadataKey(ret.taskID)))
       => (/\ ret.err \in {"backend", "provider miss"}
           /\ \A k \in DOMAIN store :
                IsPrefix(RunDetailPrefix, k) =>
                  UnmarshalTaskRunMetadata(store[k]).val.TaskId # ret.taskID)

FirstNonEmpty(ids) ==
  IF \E i \in 1..Len(ids) : ids[i] # ""
  THEN ids[CHOOSE i \in 1..Len(ids) : ids[i] # "" /\ \A j \in 1..(i - 1) : ids[j] = ""]
  ELSE ""

IDWriteOnce(l) ==
  /\ ~l.panic
  /\ GetRequestID(l.logger) = FirstNonEmpty(l.passed)

KeptUnchanged(l) ==
  (/\ l.last.call = "WithRequestID"
   /\ l.passed[Len(l.passed)] = "" \/ GetRequestID(l.last.before) # "")
    => (~l.panic /\ l.logger = l.last.before)

ValuesCarryID(l) ==
  GetRequestID(l.logger) # "" =>
    /\ "request-id" \in DOMAIN l.logger.Values
    /\ l.logger.Values["request-id"] = GetRequestID(l.logger)

(* C32: the request id of a logger is write-once: after any sequence of    *)
(* WithRequestID, WithResource, WithProvider and WithValues calls the id   *)
(* is the first non-empty id passed to WithRequestID, or empty if none     *)
(* was; WithRequestID with an empty id, or on a logger that has an id,     *)
(* returns the logger unchanged; and the "request-id" entry of Values is   *)
(* the id whenever the id is set.                                          *)
C32_RequestIDWriteOnce ==
  (loc[1].op = "Logger") =>
     /\ IDWriteOnce(loc[1])
     /\ KeptUnchanged(loc[1])
     /\ ValuesCarryID(loc[1])

====
